---- MODULE Spec2Model ----
(***************************************************************************)
(* A model of go-nicejsonpb: the schema-directed JSON decoder              *)
(* (jsonpb.go: Unmarshaler.unmarshalValue and its entry points) and its    *)
(* error-path helpers (errors.go: FieldError, correctJsonType,             *)
(* getFieldMismatchError).                                                 *)
(*                                                                         *)
(* A json.RawMessage is modelled as a tagged value: a scalar carries its   *)
(* text as a sequence of lexemes (the first and the last one are the       *)
(* quotes of a JSON string, exactly the bytes the code looks at), an array *)
(* carries its elements and an object its key -> raw value mapping.        *)
(* Go's `range` over a map visits the keys in an unspecified order: every  *)
(* such loop is modelled over every order, so a decode is a SET of         *)
(* outcomes, and the entry points choose one of them.                      *)
(***************************************************************************)
EXTENDS Integers, Sequences, FiniteSets, TLC

VARIABLES
    allowUnknown,   \* Unmarshaler.AllowUnknownFields of the call
    pbType,         \* the Go type of the target message pb ("" before a call)
    doc,            \* the document handed to the call
    res,            \* the outcome of the call: status, target, error, log
    prev            \* the outcome of the call before, on the same input

vars == <<allowUnknown, pbType, doc, res, prev>>

----------------------------------------------------------------------------
(* Bounds of the model.                                                    *)

\* A generated document holds at most this many scalar leaves (an empty
\* array or object counts as one) and nests less deep than this.
MaxLeaves == 4

\* A generated JSON array holds at most this many elements.
MaxLen == 2

----------------------------------------------------------------------------
(* Raw JSON values (json.RawMessage).                                      *)

Q == "\""

Scalar(txt) == [k |-> "scalar", v |-> txt]
Arr(elems)  == [k |-> "array",  v |-> elems]
Obj(fields) == [k |-> "object", v |-> fields]

\* The document whose bytes are not JSON at all.
Malformed == [k |-> "malformed", v |-> <<>>]

Null   == Scalar(<<"null">>)
Num3   == Scalar(<<"3">>)
Num21  == Scalar(<<"2", ".", "1">>)
StrS   == Scalar(<<Q, "s", Q>>)
Str5   == Scalar(<<Q, "5", Q>>)
StrRED == Scalar(<<Q, "RED", Q>>)

EmptyFcn == [x \in {} |-> Null]

Digits == {"0", "1", "2", "3", "4", "5", "6", "7", "8", "9"}

DigitVal(c) ==
    CASE c = "0" -> 0 [] c = "1" -> 1 [] c = "2" -> 2 [] c = "3" -> 3
      [] c = "4" -> 4 [] c = "5" -> 5 [] c = "6" -> 6 [] c = "7" -> 7
      [] c = "8" -> 8 [] c = "9" -> 9

\* string(b) of a byte slice: the lexemes joined.
RECURSIVE BytesToString(_)
BytesToString(txt) ==
    IF txt = <<>> THEN "" ELSE Head(txt) \o BytesToString(Tail(txt))

\* json.RawMessage(ks): the bytes of a map key already decoded to a string.
KeyBytes(ks) == IF ks = "" THEN <<>> ELSE <<ks>>

\* b[1 : len(b)-1]
Interior(txt) == SubSeq(txt, 2, Len(txt) - 1)

\* The JSON kind encoding/json sees in a scalar text; "invalid" when the
\* text is no JSON value.
RECURSIVE AllDigits(_)
AllDigits(txt) ==
    \/ txt = <<>>
    \/ Head(txt) \in Digits /\ AllDigits(Tail(txt))

IsIntLiteral(txt) ==
    LET body == IF txt # <<>> /\ Head(txt) = "-" THEN Tail(txt) ELSE txt
    IN  body # <<>> /\ AllDigits(body)

IsFracLiteral(txt) ==
    \E i \in 2 .. (Len(txt) - 1) :
        /\ txt[i] = "."
        /\ IsIntLiteral(SubSeq(txt, 1, i - 1))
        /\ AllDigits(SubSeq(txt, i + 1, Len(txt)))

JSONKind(txt) ==
    CASE txt = <<"null">> -> "null"
      [] txt \in {<<"true">>, <<"false">>} -> "bool"
      [] Len(txt) >= 2 /\ txt[1] = Q /\ txt[Len(txt)] = Q -> "string"
      [] IsIntLiteral(txt) \/ IsFracLiteral(txt) -> "number"
      [] OTHER -> "invalid"

RECURSIVE IntValue(_)
IntValue(txt) ==
    IF txt = <<>> THEN 0
    ELSE IF Head(txt) = "-" THEN 0 - IntValue(Tail(txt))
    ELSE LET n == Len(txt)
         IN  10 * IntValue(SubSeq(txt, 1, n - 1)) + DigitVal(txt[n])

----------------------------------------------------------------------------
(* Go types (reflect.Type), named by their Go type string, and the values  *)
(* a target slot (reflect.Value) holds.                                    *)

T(kind, elem, key) == [kind |-> kind, elem |-> elem, key |-> key]

Prim(kind) == T(kind, "", "")

GoTypes ==
    "uint32" :> Prim("uint32") @@ "int32" :> Prim("int32") @@
    "int64" :> Prim("int64") @@ "string" :> Prim("string") @@
    "Color" :> Prim("int32") @@
    "[]uint8" :> T("slice", "uint8", "") @@
    "[]uint32" :> T("slice", "uint32", "") @@
    "[]Color" :> T("slice", "Color", "") @@
    "map[int32]string" :> T("map", "string", "int32") @@
    "map[string]*Embedded" :> T("map", "*Embedded", "string") @@
    "isOneofMsg_Choice" :> Prim("interface") @@
    "*Embedded" :> T("ptr", "Embedded", "") @@
    "*OneofMsg_AltA" :> T("ptr", "OneofMsg_AltA", "") @@
    "*OneofMsg_AltB" :> T("ptr", "OneofMsg_AltB", "") @@
    "*Timestamp" :> T("ptr", "Timestamp", "") @@
    "*Duration" :> T("ptr", "Duration", "") @@
    "*StringValue" :> T("ptr", "StringValue", "") @@
    "*Any" :> T("ptr", "Any", "") @@
    "ValidatorMessage3" :> Prim("struct") @@ "Embedded" :> Prim("struct") @@
    "OneofMsg" :> Prim("struct") @@ "OneofMsg_AltA" :> Prim("struct") @@
    "OneofMsg_AltB" :> Prim("struct") @@ "MapMsg" :> Prim("struct") @@
    "EnumMsg" :> Prim("struct") @@ "TimeMsg" :> Prim("struct") @@
    "Timestamp" :> Prim("struct") @@ "Duration" :> Prim("struct") @@
    "StringValue" :> Prim("struct") @@ "Any" :> Prim("struct")

Kind(t) == IF t = "uint8" THEN "uint8" ELSE GoTypes[t].kind
Elem(t) == GoTypes[t].elem
Key(t)  == GoTypes[t].key

IntKinds == {"int32", "uint32", "int64", "uint64"}

\* reflect.StructField: the Go name and the type of a struct's field.
SF(name, type) == [name |-> name, type |-> type]

StructFields(t) ==
    CASE t = "ValidatorMessage3" ->
            <<SF("SomeIntRep", "[]uint32"), SF("SomeEmbedded", "*Embedded")>>
      [] t = "Embedded" ->
            <<SF("Identifier", "string"), SF("SomeValue", "int64")>>
      [] t = "OneofMsg" ->
            <<SF("Name", "string"), SF("Choice", "isOneofMsg_Choice")>>
      [] t = "OneofMsg_AltA" -> <<SF("AltA", "string")>>
      [] t = "OneofMsg_AltB" -> <<SF("AltB", "uint32")>>
      [] t = "MapMsg" ->
            <<SF("ByName", "map[string]*Embedded")>>
      [] t = "EnumMsg" ->
            <<SF("Kind", "Color"), SF("Kinds", "[]Color"),
              SF("ByNum", "map[int32]string"),
              SF("XXX_unrecognized", "[]uint8")>>
      [] t = "TimeMsg" ->
            <<SF("When", "*Timestamp"), SF("Took", "*Duration"),
              SF("Note", "*StringValue"), SF("Extra", "*Any")>>
      [] t = "Timestamp" -> <<SF("Seconds", "int64"), SF("Nanos", "int32")>>
      [] t = "Duration" -> <<SF("Seconds", "int64"), SF("Nanos", "int32")>>
      [] t = "StringValue" -> <<SF("Value", "string")>>
      [] t = "Any" -> <<SF("TypeUrl", "string"), SF("Value", "[]uint8")>>

NumField(t) == Len(StructFields(t))

FieldNamesOf(t) == {StructFields(t)[i].name : i \in 1 .. NumField(t)}

\* The method XXX_WellKnownType of a target, "" for a type without it.
XXX_WellKnownType(t) ==
    IF t \in {"Timestamp", "Duration", "StringValue", "Any"} THEN t ELSE ""

NilV       == [k |-> "nil", v |-> 0]
IntV(n)    == [k |-> "int", v |-> n]
StrV(s)    == [k |-> "string", v |-> s]
PtrV(x)    == [k |-> "ptr", v |-> x]
SliceV(xs) == [k |-> "slice", v |-> xs]
MapV(m)    == [k |-> "map", v |-> m]
StructV(f) == [k |-> "struct", v |-> f]

\* The zero value of a type: what a freshly allocated target holds.
\* The declared type of the field of struct type t with Go name n.
FieldType(t, n) ==
    StructFields(t)[CHOOSE i \in 1 .. NumField(t) :
                        StructFields(t)[i].name = n].type

RECURSIVE Zero(_)
Zero(t) ==
    CASE Kind(t) \in IntKinds -> IntV(0)
      [] Kind(t) = "string" -> StrV("")
      [] Kind(t) = "struct" ->
            StructV([n \in FieldNamesOf(t) |-> Zero(FieldType(t, n))])
      [] OTHER -> NilV

----------------------------------------------------------------------------
(* The schema metadata of the target types (proto.Properties,              *)
(* proto.StructProperties): what proto.GetProperties hands the decoder.    *)

P(name, orig, json, enum) ==
    [Name |-> name, OrigName |-> orig, JSONName |-> json, Enum |-> enum,
     isNil |-> FALSE]

\* A nil *proto.Properties.
NilProp ==
    [Name |-> "", OrigName |-> "", JSONName |-> "", Enum |-> "",
     isNil |-> TRUE]

OOP(prop, type, field) == [Prop |-> prop, Type |-> type, Field |-> field]

NoOneofs == [x \in {} |-> OOP(NilProp, "", 0)]

\* sprops.Prop has one entry per struct field, in field order;
\* sprops.OneofTypes is a Go map keyed by the alternative's original name.
GetProperties(t) ==
    CASE t = "ValidatorMessage3" ->
            [Prop |-> <<P("SomeIntRep", "some_int_rep", "someIntRep", ""),
                        P("SomeEmbedded", "some_embedded", "someEmbedded", "")>>,
             OneofTypes |-> NoOneofs]
      [] t = "Embedded" ->
            [Prop |-> <<P("Identifier", "identifier", "", ""),
                        P("SomeValue", "some_value", "someValue", "")>>,
             OneofTypes |-> NoOneofs]
      [] t = "OneofMsg" ->
            [Prop |-> <<P("Name", "name", "", ""),
                        P("Choice", "choice", "", "")>>,
             OneofTypes |->
                ("alt_a" :> OOP(P("AltA", "alt_a", "altA", ""),
                                "*OneofMsg_AltA", 2) @@
                 "alt_b" :> OOP(P("AltB", "alt_b", "altB", ""),
                                "*OneofMsg_AltB", 2))]
      [] t = "MapMsg" ->
            [Prop |-> <<P("ByName", "by_name", "byName", "")>>,
             OneofTypes |-> NoOneofs]
      [] t = "EnumMsg" ->
            [Prop |-> <<P("Kind", "kind", "", "test.Color"),
                        P("Kinds", "kinds", "", "test.Color"),
                        P("ByNum", "by_num", "byNum", ""),
                        P("XXX_unrecognized", "", "", "")>>,
             OneofTypes |-> NoOneofs]
      [] t = "TimeMsg" ->
            [Prop |-> <<P("When", "when", "", ""), P("Took", "took", "", ""),
                        P("Note", "note", "", ""), P("Extra", "extra", "", "")>>,
             OneofTypes |-> NoOneofs]
      [] OTHER -> [Prop |-> <<>>, OneofTypes |-> NoOneofs]

\* proto.EnumValueMap: the name -> number table of an enum type.
EnumValueMap(enum) ==
    IF enum = "test.Color" THEN [RED |-> 0, GREEN |-> 1]
    ELSE [x \in {} |-> 0]

\* strings.HasPrefix(ft.Name, "XXX_")
IsInternal(name) ==
    name \in {"XXX_unrecognized", "XXX_InternalExtensions", "XXX_sizecache"}

----------------------------------------------------------------------------
(* Errors.  A leaf error is [k, a, b]: its Go type and the values its      *)
(* message is built from.  A *fieldError is [k, fieldStack, nestedErr].    *)

NoErr == [k |-> "nil"]

Leaf(k, a, b) == [k |-> k, a |-> a, b |-> b]

UnmarshalTypeError(value, type) == Leaf("UnmarshalTypeError", <<value>>, <<type>>)
SyntaxError(msg)                == Leaf("SyntaxError", <<msg>>, <<>>)
Errorf(msg)                     == Leaf("errorString", <<msg>>, <<>>)

IsFieldError(err) == err.k = "fieldError"

\* The names of encoding/json's intermediate raw-tree types.
RawMapType   == "map[string]json.RawMessage"
RawSliceType == "[]json.RawMessage"

RECURSIVE Join(_, _)
Join(ss, sep) ==
    IF ss = <<>> THEN ""
    ELSE IF Len(ss) = 1 THEN ss[1]
    ELSE ss[1] \o sep \o Join(Tail(ss), sep)

\* error.Error() of a leaf error.
LeafText(err) ==
    CASE err.k = "UnmarshalTypeError" ->
            "json: cannot unmarshal " \o err.a[1]
                \o " into Go value of type " \o err.b[1]
      [] err.k = "fieldMismatch" ->
            "fields [" \o Join(err.a, " ")
                \o "] do not exist in set of known fields ["
                \o Join(err.b, " ") \o "]"
      [] OTHER -> err.a[1]

\* (f *fieldError) Error()
fieldErrorError(f) ==
    "unparsable field " \o Join(f.fieldStack, ".") \o ": "
        \o LeafText(f.nestedErr)

ErrorText(err) ==
    IF IsFieldError(err) THEN fieldErrorError(err) ELSE LeafText(err)

\* A faulty FieldError that adds the outer segment at the end of the
\* stack: the path then reads innermost first.
FieldErrorAppended(fieldName, err) ==
    IF IsFieldError(err)
    THEN [err EXCEPT !.fieldStack = Append(err.fieldStack, fieldName)]
    ELSE [k |-> "fieldError", fieldStack |-> <<fieldName>>, nestedErr |-> err]

\* A faulty FieldError that forgets to wrap: the error carries no path.
FieldErrorUnwrapped(fieldName, err) == err

\* FieldError wraps a given error providing a message call stack.
FieldError(fieldName, err) ==
    IF IsFieldError(err)
    THEN [err EXCEPT !.fieldStack = <<fieldName>> \o err.fieldStack]
    ELSE [k |-> "fieldError", fieldStack |-> <<fieldName>>, nestedErr |-> err]

\* correctJsonType casts a json.UnmarshalTypeError to the right type.
correctJsonType(err, realType) ==
    IF err.k = "UnmarshalTypeError"
    THEN [err EXCEPT !.b = <<realType>>]
    ELSE err

\* acceptedJSONFieldNames: the two spellings consumeField looks up.
acceptedJSONFieldNames(prop) ==
    [orig  |-> prop.OrigName,
     camel |-> IF prop.JSONName # "" THEN prop.JSONName ELSE prop.OrigName]

\* The known list of getFieldMismatchError: the camel name of every entry
\* of structProps.Prop.
KnownNames(structProps) ==
    [i \in 1 .. Len(structProps.Prop) |->
        acceptedJSONFieldNames(structProps.Prop[i]).camel]

\* getFieldMismatchError, with `remaining` the keys of remainingFields in
\* the order the range over the map yielded them.
getFieldMismatchError(remaining, structProps) ==
    Leaf("fieldMismatch", remaining, KnownNames(structProps))

----------------------------------------------------------------------------
(* encoding/json, strconv and time, as far as the decoder uses them.       *)

RawKind(raw) == IF raw.k = "scalar" THEN JSONKind(raw.v) ELSE raw.k

SyntaxErrorFor(raw) ==
    IF raw.v = <<>>
    THEN SyntaxError("unexpected end of JSON input")
    ELSE SyntaxError("invalid character '" \o raw.v[1]
                        \o "' looking for beginning of value")

\* json.Unmarshal(inputValue, &jsonFields), jsonFields a
\* map[string]json.RawMessage: JSON null leaves the map nil.
jsonUnmarshalRawMap(raw) ==
    CASE RawKind(raw) = "object"  -> [err |-> NoErr, m |-> raw.v]
      [] RawKind(raw) = "null"    -> [err |-> NoErr, m |-> EmptyFcn]
      [] RawKind(raw) = "invalid" -> [err |-> SyntaxErrorFor(raw), m |-> EmptyFcn]
      [] OTHER -> [err |-> UnmarshalTypeError(RawKind(raw), RawMapType),
                   m |-> EmptyFcn]

\* json.Unmarshal(inputValue, &slc), slc a []json.RawMessage.
jsonUnmarshalRawSlice(raw) ==
    CASE RawKind(raw) = "array"   -> [err |-> NoErr, slc |-> raw.v]
      [] RawKind(raw) = "null"    -> [err |-> NoErr, slc |-> <<>>]
      [] RawKind(raw) = "invalid" -> [err |-> SyntaxErrorFor(raw), slc |-> <<>>]
      [] OTHER -> [err |-> UnmarshalTypeError(RawKind(raw), RawSliceType),
                   slc |-> <<>>]

\* json.Unmarshal(inputValue, target.Addr().Interface()) for a target that
\* is no message, list or map: the value written and the error.
jsonUnmarshal(raw, tt, target) ==
    LET kind == RawKind(raw)
        bad  == [err |-> UnmarshalTypeError(kind, tt), val |-> target]
    IN  CASE kind = "invalid" -> [err |-> SyntaxErrorFor(raw), val |-> target]
          [] kind = "null" ->
                [err |-> NoErr,
                 val |-> IF Kind(tt) \in {"interface", "slice", "map", "ptr"}
                         THEN NilV ELSE target]
          [] kind # "null" /\ kind # "invalid" /\ Kind(tt) = "string" ->
                IF kind = "string"
                THEN [err |-> NoErr,
                      val |-> StrV(BytesToString(Interior(raw.v)))]
                ELSE bad
          [] kind # "null" /\ kind # "invalid" /\ Kind(tt) \in IntKinds ->
                IF kind # "number" THEN bad
                ELSE IF /\ IsIntLiteral(raw.v)
                        /\ (Kind(tt) \in {"uint32", "uint64"}
                                => IntValue(raw.v) >= 0)
                     THEN [err |-> NoErr, val |-> IntV(IntValue(raw.v))]
                     ELSE [err |-> UnmarshalTypeError(
                                      "number " \o BytesToString(raw.v), tt),
                           val |-> target]
          [] OTHER -> bad

\* strconv.Unquote(string(inputValue))
Unquote(raw) ==
    IF raw.k = "scalar" /\ JSONKind(raw.v) = "string"
    THEN [err |-> NoErr, unq |-> Interior(raw.v)]
    ELSE [err |-> Errorf("invalid syntax"), unq |-> <<>>]

NanosPerSecond == 1000000000

\* Go's integer division truncates toward zero, and % takes the sign of
\* the dividend.
TruncDiv(a, b) == IF a >= 0 THEN a \div b ELSE 0 - ((0 - a) \div b)
TruncRem(a, b) == a - b * TruncDiv(a, b)

\* The fractional-second lexemes and their nanoseconds.
FracNanos ==
    ".5" :> 500000000 @@ ".999999999" :> 999999999

\* The date-time lexemes (UTC) and their seconds since the epoch.
EpochSeconds ==
    "1969-12-31T23:59:59" :> (0 - 1) @@ "1970-01-01T00:00:01" :> 1

\* time.ParseDuration(unq) followed by d.Nanoseconds(): literals
\* [-]<digit>[<fraction>]s.
ParseDuration(unq) ==
    LET neg  == unq # <<>> /\ unq[1] = "-"
        body == IF neg THEN Tail(unq) ELSE unq
        ok   == \/ Len(body) = 2 /\ body[1] \in Digits /\ body[2] = "s"
                \/ /\ Len(body) = 3 /\ body[1] \in Digits
                   /\ body[2] \in DOMAIN FracNanos /\ body[3] = "s"
        abs  == DigitVal(body[1]) * NanosPerSecond
                    + (IF Len(body) = 3 THEN FracNanos[body[2]] ELSE 0)
    IN  IF ok
        THEN [err |-> NoErr, ns |-> IF neg THEN 0 - abs ELSE abs]
        ELSE [err |-> Errorf("time: invalid duration "
                                \o BytesToString(unq)),
              ns |-> 0]

\* time.Parse(time.RFC3339Nano, unq) followed by t.UnixNano(): literals
\* <date-time>[<fraction>]Z.
ParseTimestamp(unq) ==
    LET ok == \/ /\ Len(unq) = 2 /\ unq[1] \in DOMAIN EpochSeconds
                 /\ unq[2] = "Z"
              \/ /\ Len(unq) = 3 /\ unq[1] \in DOMAIN EpochSeconds
                 /\ unq[2] \in DOMAIN FracNanos /\ unq[3] = "Z"
    IN  IF ok
        THEN [err |-> NoErr,
              ns  |-> EpochSeconds[unq[1]] * NanosPerSecond
                        + (IF Len(unq) = 3 THEN FracNanos[unq[2]] ELSE 0)]
        ELSE [err |-> Errorf("parsing time " \o BytesToString(unq)), ns |-> 0]

----------------------------------------------------------------------------
(* The decoder.  An outcome is the status of a call ("ok", "err", or       *)
(* "panic" for a run-time panic), the target as the call left it, the      *)
(* error returned, and a log: the Name of every field whose decoding was   *)
(* started, in the order it was started.                                   *)

O(st, val, err, log) == [st |-> st, val |-> val, err |-> err, log |-> log]

\* The state of the loops over one message object: an outcome and the
\* jsonFields map as consumeField has left it.
L(st, val, err, log, jf) ==
    [st |-> st, val |-> val, err |-> err, log |-> log, jf |-> jf]

Outcome(l) == O(l.st, l.val, l.err, l.log)

\* Every order in which a range over a Go map with key set S can yield.
RECURSIVE Orders(_)
Orders(S) ==
    IF S = {} THEN {<<>>}
    ELSE UNION {{<<x>> \o o : o \in Orders(S \ {x})} : x \in S}

Restrict(f, S) == [x \in S |-> f[x]]

\* A faulty consumeField that lets the original name win over the alias.
consumeFieldOrigFirst(jsonFields, prop) ==
    LET fieldNames == acceptedJSONFieldNames(prop)
        okOrig     == fieldNames.orig \in DOMAIN jsonFields
        okCamel    == fieldNames.camel \in DOMAIN jsonFields
        gone       == (IF okOrig THEN {fieldNames.orig} ELSE {})
                        \cup (IF okCamel THEN {fieldNames.camel} ELSE {})
    IN  IF ~okOrig /\ ~okCamel
        THEN [raw |-> Null, ok |-> FALSE, jsonFields |-> jsonFields]
        ELSE [raw |-> IF okOrig THEN jsonFields[fieldNames.orig]
                      ELSE jsonFields[fieldNames.camel],
              ok |-> TRUE,
              jsonFields |-> Restrict(jsonFields, DOMAIN jsonFields \ gone)]

\* The closure consumeField of unmarshalValue: the raw value of the field,
\* whether it was found, and jsonFields after the deletes.
consumeField(jsonFields, prop) ==
    LET fieldNames == acceptedJSONFieldNames(prop)
        okOrig     == fieldNames.orig \in DOMAIN jsonFields
        okCamel    == fieldNames.camel \in DOMAIN jsonFields
        gone       == (IF okOrig THEN {fieldNames.orig} ELSE {})
                        \cup (IF okCamel THEN {fieldNames.camel} ELSE {})
    IN  IF ~okOrig /\ ~okCamel
        THEN [raw |-> Null, ok |-> FALSE, jsonFields |-> jsonFields]
        ELSE [raw |-> IF okCamel THEN jsonFields[fieldNames.camel]
                      ELSE jsonFields[fieldNames.orig],
              ok |-> TRUE,
              jsonFields |-> Restrict(jsonFields, DOMAIN jsonFields \ gone)]

\* inputValue[0]; the callers have excluded the empty value.
FirstByte(raw) ==
    CASE raw.k = "array" -> "["
      [] raw.k = "object" -> "{"
      [] OTHER -> raw.v[1]

\* A faulty check that rejects leftover keys whatever the setting.
UnknownFieldsCheckAlways(allow, jsonFields) == DOMAIN jsonFields # {}

\* if !u.AllowUnknownFields && len(jsonFields) > 0
UnknownFieldsCheck(allow, jsonFields) == ~allow /\ DOMAIN jsonFields # {}

\* case "Duration"
unmarshalDuration(tt, target, inputValue, log) ==
    LET u == Unquote(inputValue)
        d == ParseDuration(u.unq)
        s == TruncDiv(d.ns, NanosPerSecond)
        ns == TruncRem(d.ns, NanosPerSecond)
    IN  IF u.err # NoErr THEN {O("err", target, u.err, log)}
        ELSE IF d.err # NoErr
        THEN {O("err", target, Errorf("bad Duration: " \o LeafText(d.err)), log)}
        ELSE {O("ok",
                [target EXCEPT !.v[StructFields(tt)[1].name] = IntV(s),
                               !.v[StructFields(tt)[2].name] = IntV(ns)],
                NoErr, log)}

\* case "Timestamp"
unmarshalTimestamp(tt, target, inputValue, log) ==
    LET u == Unquote(inputValue)
        t == ParseTimestamp(u.unq)
        s == TruncDiv(t.ns, NanosPerSecond)
        ns == TruncRem(t.ns, NanosPerSecond)
    IN  IF u.err # NoErr THEN {O("err", target, u.err, log)}
        ELSE IF t.err # NoErr
        THEN {O("err", target, Errorf("bad Timestamp: " \o LeafText(t.err)), log)}
        ELSE {O("ok",
                [target EXCEPT !.v[StructFields(tt)[1].name] = IntV(s),
                               !.v[StructFields(tt)[2].name] = IntV(ns)],
                NoErr, log)}

\* The enum branch: a JSON string for a field whose prop names an enum.
\* target.SetInt panics on a target that is no integer.
unmarshalEnum(tt, target, inputValue, prop, log) ==
    LET vmap == EnumValueMap(prop.Enum)
        s    == BytesToString(Interior(inputValue.v))
    IN  IF Len(inputValue.v) < 2 THEN {O("panic", target, NoErr, log)}
        ELSE IF s \notin DOMAIN vmap
        THEN {O("err", target,
                Errorf("unknown value '" \o Q \o s \o Q \o "' for enum "
                          \o prop.Enum), log)}
        ELSE IF Kind(tt) \in IntKinds
        THEN {O("ok", IntV(vmap[s]), NoErr, log)}
        ELSE {O("panic", target, NoErr, log)}

\* 64-bit integers encoded as strings: drop the quotes and parse.
unmarshalQuotedInt(tt, target, inputValue, log) ==
    LET r == jsonUnmarshal(Scalar(Interior(inputValue.v)), tt, target)
    IN  IF Len(inputValue.v) < 2 THEN {O("panic", target, NoErr, log)}
        ELSE IF r.err # NoErr
        THEN {O("err", r.val,
                Errorf(LeafText(r.err)
                          \o " while looking for an integer in a string"),
                log)}
        ELSE {O("ok", r.val, NoErr, log)}

RECURSIVE unmarshalValue(_, _, _, _, _, _)
RECURSIVE decodeFields(_, _, _, _, _, _)
RECURSIVE decodeOneofs(_, _, _, _, _, _)
RECURSIVE decodeElems(_, _, _, _, _, _, _)
RECURSIVE decodeEntries(_, _, _, _, _, _)

\* A faulty field loop that goes on after a field has failed and reports
\* the failure once the remaining fields are decoded.
decodeFieldsKeepGoing(allow, tt, target, jsonFields, i, log) ==
    IF i > NumField(tt) THEN {L("ok", target, NoErr, log, jsonFields)}
    ELSE
    LET ft   == StructFields(tt)[i]
        prop == GetProperties(tt).Prop[i]
        c    == consumeField(jsonFields, prop)
    IN  IF IsInternal(ft.name) \/ ~c.ok
        THEN decodeFields(allow, tt, target, jsonFields, i + 1, log)
        ELSE UNION {
            LET t2 == [target EXCEPT !.v[ft.name] = o.val]
            IN  CASE o.st = "ok" ->
                        decodeFields(allow, tt, t2, c.jsonFields, i + 1, o.log)
                  [] o.st = "err" ->
                        {IF l.st = "panic" THEN l
                         ELSE [l EXCEPT !.st = "err",
                                        !.err = FieldError(prop.Name, o.err)]
                         : l \in decodeFields(allow, tt, t2, c.jsonFields,
                                              i + 1, o.log)}
                  [] OTHER -> {L("panic", t2, NoErr, o.log, c.jsonFields)}
            : o \in unmarshalValue(allow, ft.type, target.v[ft.name], c.raw,
                                   prop, Append(log, prop.Name)) }

\* The loop over the declared fields, from field i on.
decodeFields(allow, tt, target, jsonFields, i, log) ==
    IF i > NumField(tt) THEN {L("ok", target, NoErr, log, jsonFields)}
    ELSE
    LET ft   == StructFields(tt)[i]
        prop == GetProperties(tt).Prop[i]
        c    == consumeField(jsonFields, prop)
    IN  IF IsInternal(ft.name) \/ ~c.ok
        THEN decodeFields(allow, tt, target, jsonFields, i + 1, log)
        ELSE UNION {
            LET t2 == [target EXCEPT !.v[ft.name] = o.val]
            IN  CASE o.st = "ok" ->
                        decodeFields(allow, tt, t2, c.jsonFields, i + 1, o.log)
                  [] o.st = "err" ->
                        {L("err", t2, FieldError(prop.Name, o.err), o.log,
                           c.jsonFields)}
                  [] OTHER -> {L("panic", t2, NoErr, o.log, c.jsonFields)}
            : o \in unmarshalValue(allow, ft.type, target.v[ft.name], c.raw,
                                   prop, Append(log, prop.Name)) }

\* The loop over sprops.OneofTypes, visited in the order ord.
decodeOneofs(allow, tt, target, jsonFields, ord, log) ==
    IF ord = <<>> THEN {L("ok", target, NoErr, log, jsonFields)}
    ELSE
    LET oop   == GetProperties(tt).OneofTypes[Head(ord)]
        c     == consumeField(jsonFields, oop.Prop)
        slot  == StructFields(tt)[oop.Field].name
        inner == StructFields(Elem(oop.Type))[1]
    IN  IF ~c.ok
        THEN decodeOneofs(allow, tt, target, jsonFields, Tail(ord), log)
        ELSE UNION {
            LET nv == PtrV(StructV(inner.name :> o.val))
                t2 == [target EXCEPT !.v[slot] = nv]
            IN  CASE o.st = "ok" ->
                        decodeOneofs(allow, tt, t2, c.jsonFields, Tail(ord),
                                     o.log)
                  [] o.st = "err" ->
                        {L("err", t2, FieldError(oop.Prop.Name, o.err), o.log,
                           c.jsonFields)}
                  [] OTHER -> {L("panic", t2, NoErr, o.log, c.jsonFields)}
            : o \in unmarshalValue(allow, inner.type, Zero(inner.type), c.raw,
                                   oop.Prop, Append(log, oop.Prop.Name)) }

\* What follows the loop over the declared fields: the oneof fields, then
\* the unknown-field check.
afterOneofs(allow, tt, l) ==
    IF l.st # "ok" THEN {Outcome(l)}
    ELSE IF UnknownFieldsCheck(allow, l.jf)
    THEN {O("err", l.val,
            getFieldMismatchError(remaining, GetProperties(tt)), l.log)
          : remaining \in Orders(DOMAIN l.jf)}
    ELSE {O("ok", l.val, NoErr, l.log)}

afterFields(allow, tt, l) ==
    IF l.st # "ok" THEN {Outcome(l)}
    ELSE IF DOMAIN l.jf # {}
    THEN UNION {
            UNION {afterOneofs(allow, tt, l2)
                   : l2 \in decodeOneofs(allow, tt, l.val, l.jf, ord, l.log)}
            : ord \in Orders(DOMAIN GetProperties(tt).OneofTypes)}
    ELSE afterOneofs(allow, tt, l)

\* Handle nested messages.
unmarshalMessage(allow, tt, target, inputValue, log) ==
    LET parsed == jsonUnmarshalRawMap(inputValue)
    IN  IF parsed.err # NoErr
        THEN {O("err", target, correctJsonType(parsed.err, tt), log)}
        ELSE UNION {afterFields(allow, tt, l)
                    : l \in decodeFields(allow, tt, target, parsed.m, 1, log)}

\* The loop over the elements of an array, from element i on (1-based
\* here, 0-based in the label).
decodeElems(allow, tt, target, slc, prop, i, log) ==
    IF i > Len(slc) THEN {O("ok", target, NoErr, log)}
    ELSE UNION {
        LET t2 == [target EXCEPT !.v[i] = o.val]
        IN  CASE o.st = "ok" ->
                    decodeElems(allow, tt, t2, slc, prop, i + 1, o.log)
              [] o.st = "err" ->
                    {O("err", t2,
                       FieldError("[" \o ToString(i - 1) \o "]", o.err), o.log)}
              [] OTHER -> {O("panic", t2, NoErr, o.log)}
        : o \in unmarshalValue(allow, Elem(tt), target.v[i], slc[i], prop, log) }

\* Handle arrays (which aren't encoded bytes).
unmarshalSlice(allow, tt, target, inputValue, prop, log) ==
    LET parsed == jsonUnmarshalRawSlice(inputValue)
    IN  IF parsed.err # NoErr
        THEN {O("err", target, correctJsonType(parsed.err, tt), log)}
        ELSE decodeElems(allow, tt,
                 SliceV([i \in 1 .. Len(parsed.slc) |-> Zero(Elem(tt))]),
                 parsed.slc, prop, 1, log)

\* The loop over the entries of a map, visited in the order ord.
decodeEntries(allow, tt, target, mp, ord, log) ==
    IF ord = <<>> THEN {O("ok", target, NoErr, log)}
    ELSE
    LET ks   == Head(ord)
        keys == IF Kind(Key(tt)) = "string"
                THEN {O("ok", StrV(ks), NoErr, log)}
                ELSE unmarshalValue(allow, Key(tt), Zero(Key(tt)),
                                    Scalar(KeyBytes(ks)), NilProp, log)
    IN  UNION {
            CASE k.st = "err" ->
                    {O("err", target,
                       FieldError("['" \o ks \o "']key", k.err), k.log)}
              [] k.st = "panic" -> {O("panic", target, NoErr, k.log)}
              [] OTHER ->
                    UNION {
                        CASE v.st = "err" ->
                                {O("err", target,
                                   FieldError("['" \o ks \o "']value", v.err),
                                   v.log)}
                          [] v.st = "panic" -> {O("panic", target, NoErr, v.log)}
                          [] OTHER ->
                                decodeEntries(allow, tt,
                                    MapV((k.val.v :> v.val) @@ target.v),
                                    mp, Tail(ord), v.log)
                        : v \in unmarshalValue(allow, Elem(tt), Zero(Elem(tt)),
                                               mp[ks], NilProp, k.log) }
            : k \in keys }

\* Handle maps (whose keys are always strings).
unmarshalMap(allow, tt, target, inputValue, log) ==
    LET parsed == jsonUnmarshalRawMap(inputValue)
    IN  IF parsed.err # NoErr
        THEN {O("err", target, parsed.err, log)}
        ELSE UNION {decodeEntries(allow, tt, MapV(EmptyFcn), parsed.m, ord, log)
                    : ord \in Orders(DOMAIN parsed.m)}

\* unmarshalValue converts/copies a value into the target.
unmarshalValue(allow, tt, target, inputValue, prop, log) ==
    CASE Kind(tt) = "ptr" ->
            {[o EXCEPT !.val = PtrV(o.val)]
             : o \in unmarshalValue(allow, Elem(tt), Zero(Elem(tt)),
                                    inputValue, prop, log)}
      [] XXX_WellKnownType(tt) = "StringValue" ->
            LET f0 == StructFields(tt)[1]
            IN  {[o EXCEPT !.val = [target EXCEPT !.v[f0.name] = o.val]]
                 : o \in unmarshalValue(allow, f0.type, target.v[f0.name],
                                        inputValue, prop, log)}
      [] XXX_WellKnownType(tt) = "Any" ->
            {O("err", target, Errorf("unmarshaling Any not supported yet"), log)}
      [] XXX_WellKnownType(tt) = "Duration" ->
            unmarshalDuration(tt, target, inputValue, log)
      [] XXX_WellKnownType(tt) = "Timestamp" ->
            unmarshalTimestamp(tt, target, inputValue, log)
      [] OTHER ->
            IF inputValue.k = "scalar" /\ inputValue.v = <<>>
            THEN {O("panic", target, NoErr, log)}
            ELSE IF FirstByte(inputValue) = Q /\ ~prop.isNil /\ prop.Enum # ""
            THEN unmarshalEnum(tt, target, inputValue, prop, log)
            ELSE IF Kind(tt) = "struct"
            THEN unmarshalMessage(allow, tt, target, inputValue, log)
            ELSE IF Kind(tt) = "slice" /\ Kind(Elem(tt)) # "uint8"
            THEN unmarshalSlice(allow, tt, target, inputValue, prop, log)
            ELSE IF Kind(tt) = "map"
            THEN unmarshalMap(allow, tt, target, inputValue, log)
            ELSE IF Kind(tt) \in {"int64", "uint64"} /\ FirstByte(inputValue) = Q
            THEN unmarshalQuotedInt(tt, target, inputValue, log)
            ELSE LET r == jsonUnmarshal(inputValue, tt, target)
                 IN  {O(IF r.err = NoErr THEN "ok" ELSE "err", r.val, r.err, log)}

\* (u *Unmarshaler) UnmarshalNext: dec.Decode, then unmarshalValue on the
\* message pb points to, with a nil prop.
UnmarshalNext(allow, t, pb, d) ==
    IF d = Malformed
    THEN {O("err", pb,
            SyntaxError("invalid character 'x' looking for beginning of value"),
            <<>>)}
    ELSE unmarshalValue(allow, t, pb, d, NilProp, <<>>)

----------------------------------------------------------------------------
(* The documents the callers hand in: for a target type, every JSON value  *)
(* built from the keys the type accepts, unknown keys, and well- and       *)
(* ill-typed leaves, up to MaxLeaves leaves.                               *)

RootTypes ==
    {"ValidatorMessage3", "Embedded", "OneofMsg", "MapMsg", "EnumMsg",
     "TimeMsg"}

UnknownKeys == <<"zz", "yy">>

RECURSIVE SumSizes(_, _)
RECURSIVE Size(_)
Size(raw) ==
    CASE raw.k = "array" ->
            IF raw.v = <<>> THEN 1
            ELSE SumSizes([i \in 1 .. Len(raw.v) |-> raw.v[i]], Len(raw.v))
      [] raw.k = "object" ->
            IF DOMAIN raw.v = {} THEN 1
            ELSE LET ks == CHOOSE o \in Orders(DOMAIN raw.v) : TRUE
                 IN  SumSizes([i \in 1 .. Len(ks) |-> raw.v[ks[i]]], Len(ks))
      [] OTHER -> 1

SumSizes(raws, n) ==
    IF n = 0 THEN 0 ELSE Size(raws[n]) + SumSizes(raws, n - 1)

TimestampLiterals ==
    {Scalar(<<Q, dt, "Z", Q>>) : dt \in DOMAIN EpochSeconds}
        \cup {Scalar(<<Q, dt, f, "Z", Q>>)
              : dt \in DOMAIN EpochSeconds, f \in DOMAIN FracNanos}

DurationLiterals ==
    {Scalar(<<Q, w, "s", Q>>) : w \in {"0", "1"}}
        \cup {Scalar(<<Q, w, f, "s", Q>>) : w \in {"0", "1"}, f \in DOMAIN FracNanos}
        \cup {Scalar(<<Q, "-", w, "s", Q>>) : w \in {"0", "1"}}
        \cup {Scalar(<<Q, "-", w, f, "s", Q>>)
              : w \in {"0", "1"}, f \in DOMAIN FracNanos}

\* The keys tried in a JSON object for a map target, by key type.
MapKeysFor(kt) == IF Kind(kt) = "string" THEN <<"k", "j">> ELSE <<"1", "", "k">>

KE(key, type, prop) == [key |-> key, type |-> type, prop |-> prop]

RECURSIVE FieldEntries(_, _)
FieldEntries(t, i) ==
    IF i > NumField(t) THEN <<>>
    ELSE LET p  == GetProperties(t).Prop[i]
             ft == StructFields(t)[i].type
             n  == acceptedJSONFieldNames(p)
         IN  (IF p.OrigName = "" THEN <<>>
              ELSE IF n.orig = n.camel THEN <<KE(n.orig, ft, p)>>
              ELSE <<KE(n.orig, ft, p), KE(n.camel, ft, p)>>)
             \o FieldEntries(t, i + 1)

RECURSIVE OneofEntries(_, _)
OneofEntries(t, names) ==
    IF names = <<>> THEN <<>>
    ELSE LET oop == GetProperties(t).OneofTypes[Head(names)]
             ft  == StructFields(Elem(oop.Type))[1].type
         IN  <<KE(oop.Prop.OrigName, ft, oop.Prop),
               KE(oop.Prop.JSONName, ft, oop.Prop)>>
             \o OneofEntries(t, Tail(names))

\* The keys tried in a JSON object for a message target.
KeyEntries(t) ==
    FieldEntries(t, 1)
        \o OneofEntries(t, CHOOSE o \in Orders(DOMAIN GetProperties(t).OneofTypes)
                                : TRUE)
        \o [i \in 1 .. Len(UnknownKeys) |-> KE(UnknownKeys[i], "?", NilProp)]

RECURSIVE Gen(_, _, _)
RECURSIVE GenObj(_, _, _)
RECURSIVE GenArr(_, _, _, _)

\* The partial mappings over the keys entries[i..] of total size <= b.
GenObj(entries, i, b) ==
    IF i > Len(entries) THEN {EmptyFcn}
    ELSE GenObj(entries, i + 1, b)
            \cup (IF b = 0 THEN {}
                  ELSE UNION {
                        {(entries[i].key :> v) @@ f
                         : f \in GenObj(entries, i + 1, b - Size(v))}
                        : v \in Gen(entries[i].type, entries[i].prop, b - 1)})

\* The element sequences of length <= n and total size <= b.
GenArr(et, prop, n, b) ==
    {<<>>} \cup
        (IF n = 0 \/ b = 0 THEN {}
         ELSE UNION {{<<v>> \o r : r \in GenArr(et, prop, n - 1, b - Size(v))}
                     : v \in Gen(et, prop, b - 1)})

\* The raw values of size <= b tried for a target of type tt; what a
\* container holds is of size < b.
Gen(tt, prop, b) ==
    IF b < 1 THEN {} ELSE
    CASE tt = "?" -> {Num3}
      [] tt # "?" /\ Kind(tt) = "ptr" -> Gen(Elem(tt), prop, b)
      [] tt = "Timestamp" -> TimestampLiterals \cup {StrS, Num3}
      [] tt = "Duration" -> DurationLiterals \cup {StrS, Num3}
      [] tt = "StringValue" -> {StrS, Num3, Null}
      [] tt = "Any" -> {StrS}
      [] tt \notin {"?", "Timestamp", "Duration", "StringValue", "Any"}
            /\ Kind(tt) = "struct" ->
            {StrS, Null} \cup {Obj(f) : f \in GenObj(KeyEntries(tt), 1, b)}
      [] tt # "?" /\ Kind(tt) = "slice" ->
            (IF prop.Enum # "" THEN {StrS, StrRED} ELSE {StrS})
                \cup {Arr(a) : a \in GenArr(Elem(tt), prop, MaxLen, b)}
      [] tt # "?" /\ Kind(tt) = "map" ->
            LET ks == MapKeysFor(Key(tt))
            IN  {StrS, Arr(<<>>)}
                    \cup {Obj(f)
                          : f \in GenObj([i \in 1 .. Len(ks) |->
                                            KE(ks[i], Elem(tt), NilProp)], 1, b)}
      [] tt # "?" /\ Kind(tt) = "string" -> {StrS, Num3}
      [] tt # "?" /\ Kind(tt) = "interface" -> {Num3}
      [] tt # "?" /\ Kind(tt) \in IntKinds ->
            IF prop.Enum # "" THEN {StrRED, StrS, Num3}
            ELSE IF Kind(tt) \in {"int64", "uint64"} THEN {Num3, StrS, Str5}
            ELSE {Num3, StrS}

Docs == [t \in RootTypes |-> Gen(t, NilProp, MaxLeaves) \cup {Malformed}]

----------------------------------------------------------------------------
(* The callers: one decode of a document into a freshly zeroed target,     *)
(* possibly decoded once more, then discarded.                             *)

Idle == O("idle", NilV, NoErr, <<>>)

Init ==
    /\ allowUnknown = FALSE
    /\ pbType = ""
    /\ doc = Null
    /\ res = Idle
    /\ prev = Idle

\* (u *Unmarshaler) Unmarshal(r, pb), u.AllowUnknownFields = allow and pb
\* a new message of type t.
Unmarshal(allow, t, d) ==
    /\ res.st = "idle"
    /\ allowUnknown' = allow
    /\ pbType' = t
    /\ doc' = d
    /\ res' \in UnmarshalNext(allow, t, Zero(t), d)
    /\ prev' = Idle

\* UnmarshalString(str, pb): a new(Unmarshaler), which allows no unknown
\* fields.
UnmarshalString(t, d) ==
    /\ res.st = "idle"
    /\ allowUnknown' = FALSE
    /\ pbType' = t
    /\ doc' = d
    /\ res' \in UnmarshalNext(FALSE, t, Zero(t), d)
    /\ prev' = Idle

\* The caller decodes the same bytes once more, with the same setting,
\* into another new message of the same type.
UnmarshalAgain ==
    /\ res.st # "idle"
    /\ prev.st = "idle"
    /\ prev' = res
    /\ res' \in UnmarshalNext(allowUnknown, pbType, Zero(pbType), doc)
    /\ UNCHANGED <<allowUnknown, pbType, doc>>

\* The caller drops the message and the error.
Discard ==
    /\ res.st # "idle"
    /\ allowUnknown' = FALSE
    /\ pbType' = ""
    /\ doc' = Null
    /\ res' = Idle
    /\ prev' = Idle

Next ==
    \/ \E t \in RootTypes : \E d \in Docs[t] : \E allow \in BOOLEAN :
            Unmarshal(allow, t, d)
    \/ \E t \in RootTypes : \E d \in Docs[t] : UnmarshalString(t, d)
    \/ UnmarshalAgain
    \/ Discard

Spec == Init /\ [][Next]_vars

----------------------------------------------------------------------------
(* What the properties below read off a document and an error, stated      *)
(* from the schema alone (none of it is used by the decoder above).        *)

ErrStack(err) == IF IsFieldError(err) THEN err.fieldStack ELSE <<>>
ErrLeaf(err)  == IF IsFieldError(err) THEN err.nestedErr ELSE err

\* The alias spelling of a field: its declared alias, else its original name.
Alias(p) == IF p.JSONName # "" THEN p.JSONName ELSE p.OrigName

\* Whether object m holds a key for field p, and the value that counts for
\* it: the alias's when the alias is present, else the original name's.
Present(m, p) == Alias(p) \in DOMAIN m \/ p.OrigName \in DOMAIN m
Chosen(m, p)  == IF Alias(p) \in DOMAIN m THEN m[Alias(p)] ELSE m[p.OrigName]

\* The declared fields of a message type: the struct fields that are
\* neither internal nor the slot of a oneof group.
DeclaredFields(t) ==
    {i \in 1 .. NumField(t) :
        /\ ~IsInternal(StructFields(t)[i].name)
        /\ Kind(StructFields(t)[i].type) # "interface"}

OneofNames(t) == DOMAIN GetProperties(t).OneofTypes
OneofProp(t, n) == GetProperties(t).OneofTypes[n].Prop
OneofInner(t, n) == StructFields(Elem(GetProperties(t).OneofTypes[n].Type))[1]
OneofSlot(t, n) == StructFields(t)[GetProperties(t).OneofTypes[n].Field].name

\* The keys a message object of type t may hold: both spellings of every
\* struct field that is not internal and of every oneof alternative.
AcceptedKeys(t) ==
    UNION {{GetProperties(t).Prop[i].OrigName, Alias(GetProperties(t).Prop[i])}
           : i \in {j \in 1 .. NumField(t) : ~IsInternal(StructFields(t)[j].name)}}
      \cup UNION {{OneofProp(t, n).OrigName, Alias(OneofProp(t, n))}
                  : n \in OneofNames(t)}

LeftoverKeys(t, m) == DOMAIN m \ AcceptedKeys(t)

IsMessage(t) == Kind(t) = "struct" /\ XXX_WellKnownType(t) = ""

Pos(tt, raw, prop) == [tt |-> tt, raw |-> raw, prop |-> prop]

\* The positions (type, raw value, prop) the path `stack` leads to from the
\* value raw of a target of type tt.
RECURSIVE Reach(_, _, _, _)
Reach(tt, raw, prop, stack) ==
    IF Kind(tt) = "ptr" THEN Reach(Elem(tt), raw, prop, stack)
    ELSE IF stack = <<>> THEN {Pos(tt, raw, prop)}
    ELSE
    LET seg  == Head(stack)
        rest == Tail(stack)
    IN  CASE IsMessage(tt) /\ raw.k = "object" ->
                UNION {IF /\ GetProperties(tt).Prop[i].Name = seg
                          /\ ~IsInternal(StructFields(tt)[i].name)
                          /\ Present(raw.v, GetProperties(tt).Prop[i])
                       THEN Reach(StructFields(tt)[i].type,
                                  Chosen(raw.v, GetProperties(tt).Prop[i]),
                                  GetProperties(tt).Prop[i], rest)
                       ELSE {}
                       : i \in 1 .. NumField(tt)}
                  \cup
                UNION {IF /\ OneofProp(tt, n).Name = seg
                          /\ Present(raw.v, OneofProp(tt, n))
                       THEN Reach(OneofInner(tt, n).type,
                                  Chosen(raw.v, OneofProp(tt, n)),
                                  OneofProp(tt, n), rest)
                       ELSE {}
                       : n \in OneofNames(tt)}
          [] Kind(tt) = "slice" /\ raw.k = "array" ->
                UNION {IF seg = "[" \o ToString(i - 1) \o "]"
                       THEN Reach(Elem(tt), raw.v[i], prop, rest)
                       ELSE {}
                       : i \in 1 .. Len(raw.v)}
          [] Kind(tt) = "map" /\ raw.k = "object" ->
                UNION {IF seg = "['" \o ks \o "']value"
                       THEN Reach(Elem(tt), raw.v[ks], NilProp, rest)
                       ELSE IF seg = "['" \o ks \o "']key" /\ rest = <<>>
                       THEN {Pos(Key(tt), Scalar(KeyBytes(ks)), NilProp)}
                       ELSE {}
                       : ks \in DOMAIN raw.v}
          [] OTHER -> {}

\* The outcomes of decoding the value at a position on its own, into a
\* zeroed target.
Alone(allow, pos) ==
    unmarshalValue(allow, pos.tt, Zero(pos.tt), pos.raw, pos.prop, <<>>)

\* Whether some message object that a decode of raw into a target of type
\* tt goes through holds a key its type does not accept.
RECURSIVE AnyLeftover(_, _)
AnyLeftover(tt, raw) ==
    CASE Kind(tt) = "ptr" -> AnyLeftover(Elem(tt), raw)
      [] IsMessage(tt) /\ raw.k = "object" ->
            \/ LeftoverKeys(tt, raw.v) # {}
            \/ \E i \in DeclaredFields(tt) :
                    /\ Present(raw.v, GetProperties(tt).Prop[i])
                    /\ AnyLeftover(StructFields(tt)[i].type,
                                   Chosen(raw.v, GetProperties(tt).Prop[i]))
            \/ \E n \in OneofNames(tt) :
                    /\ Present(raw.v, OneofProp(tt, n))
                    /\ AnyLeftover(OneofInner(tt, n).type,
                                   Chosen(raw.v, OneofProp(tt, n)))
      [] Kind(tt) = "slice" /\ raw.k = "array" ->
            \E i \in 1 .. Len(raw.v) : AnyLeftover(Elem(tt), raw.v[i])
      [] Kind(tt) = "map" /\ raw.k = "object" ->
            \E ks \in DOMAIN raw.v : AnyLeftover(Elem(tt), raw.v[ks])
      [] OTHER -> FALSE

Range(seq) == {seq[i] : i \in 1 .. Len(seq)}

Called == res.st # "idle"
Failed == res.st = "err"

\* The alternatives of the oneof groups of a message type, in the order the
\* schema declares them.
DeclaredAlternatives(t) == IF t = "OneofMsg" THEN <<"alt_a", "alt_b">> ELSE <<>>

\* The struct fields the field loop looks at: all but the internal ones.
LoopFields(t) == {i \in 1 .. NumField(t) : ~IsInternal(StructFields(t)[i].name)}

FieldPos(t, m, i) ==
    Pos(StructFields(t)[i].type, Chosen(m, GetProperties(t).Prop[i]),
        GetProperties(t).Prop[i])

\* Field i of the root message holds what decoding its value alone gives,
\* or its zero value when the document has no key for it.
WrittenAsDecoded(i) ==
    LET name == StructFields(pbType)[i].name
    IN  IF Present(doc.v, GetProperties(pbType).Prop[i])
        THEN \E o \in Alone(allowUnknown, FieldPos(pbType, doc.v, i)) :
                o.st = "ok" /\ o.val = res.val.v[name]
        ELSE res.val.v[name] = Zero(StructFields(pbType)[i].type)

PresentAlternatives ==
    {n \in OneofNames(pbType) : Present(doc.v, OneofProp(pbType, n))}

\* The writes of the oneof slots, in the order they happened.
SlotWrites ==
    SelectSeq(res.log,
              LAMBDA x : x \in {OneofProp(pbType, n).Name : n \in OneofNames(pbType)})

----------------------------------------------------------------------------
(* The properties.                                                         *)

\* C1: the segments of a returned path error, read left to right, are the
\* access path from the decode root to the failing value: following them
\* through the document leads to a value whose decode alone fails with
\* exactly the leaf error, which is no path error itself.
C1_PathIsAccessPath ==
    (Failed /\ IsFieldError(res.err)) =>
        /\ ~IsFieldError(res.err.nestedErr)
        /\ res.err.fieldStack # <<>>
        /\ \E pos \in Reach(pbType, doc, NilProp, res.err.fieldStack) :
              \E o \in Alone(allowUnknown, pos) :
                  o.st = "err" /\ o.err = res.err.nestedErr

C1_Witness ==
    /\ Failed
    /\ IsFieldError(res.err)
    /\ res.err.fieldStack = <<"ByName", "['k']value", "SomeValue">>

C3_NamesRealType ==
    (Failed /\ ErrLeaf(res.err).k = "UnmarshalTypeError") =>
        ErrLeaf(res.err).b[1] \notin {RawMapType, RawSliceType}

\* C4: each declared field takes the value of its alias key when that is
\* present, else of its original-name key, else stays zero; a missing
\* field raises no error, and no spelling of a declared field is ever
\* reported as unknown.
C4_FieldSpellings ==
    (Called /\ RawKind(doc) = "object") =>
        /\ res.st = "ok" => \A i \in DeclaredFields(pbType) : WrittenAsDecoded(i)
        /\ doc.v = EmptyFcn => res.st = "ok" /\ res.val = Zero(pbType)
        /\ (Failed /\ IsFieldError(res.err)) =>
              \A i \in DeclaredFields(pbType) :
                  ~Present(doc.v, GetProperties(pbType).Prop[i])
                      => res.err.fieldStack[1] # GetProperties(pbType).Prop[i].Name
        /\ (Failed /\ res.err.k = "fieldMismatch") =>
              \A i \in DeclaredFields(pbType) :
                  /\ GetProperties(pbType).Prop[i].OrigName \notin Range(res.err.a)
                  /\ Alias(GetProperties(pbType).Prop[i]) \notin Range(res.err.a)

C4_Witness ==
    /\ res.st = "ok"
    /\ pbType = "Embedded"
    /\ RawKind(doc) = "object"
    /\ {"some_value", "someValue"} \subseteq DOMAIN doc.v
    /\ doc.v["some_value"] = Num3
    /\ doc.v["someValue"] = Str5
    /\ res.val.v["SomeValue"] = IntV(5)

\* C5: when a message object has keys for two alternatives of a oneof
\* group, only the first declared one is decoded: the slot is written at
\* most once and holds the first declared alternative.
C5_FirstDeclaredWins ==
    (res.st = "ok" /\ RawKind(doc) = "object"
        /\ Cardinality(PresentAlternatives) >= 2) =>
        /\ Len(SlotWrites) <= 1
        /\ \E o \in Alone(allowUnknown,
                          Pos(OneofInner(pbType, DeclaredAlternatives(pbType)[1]).type,
                              Chosen(doc.v, OneofProp(pbType, DeclaredAlternatives(pbType)[1])),
                              OneofProp(pbType, DeclaredAlternatives(pbType)[1]))) :
              res.val.v[OneofSlot(pbType, DeclaredAlternatives(pbType)[1])]
                = PtrV(StructV(OneofInner(pbType, DeclaredAlternatives(pbType)[1]).name
                                  :> o.val))

\* C6 as stated: every error a decode returns is a path error with at
\* least one segment.
C6_EveryErrorIsPathError ==
    Failed => IsFieldError(res.err) /\ Len(res.err.fieldStack) >= 1

\* C6, amended: an error for a failure inside a field of the root message
\* is a path error with at least one segment, rendered as "unparsable
\* field <path joined by .>: <leaf message>"; a failure detected at the
\* document root (bytes that are no JSON, a root value that is no object,
\* an unknown key of the top-level object) is returned as the bare leaf
\* error, with no path.
C6_FieldScopedBelowRoot ==
    Failed =>
        IF IsFieldError(res.err)
        THEN /\ Len(res.err.fieldStack) >= 1
             /\ RawKind(doc) = "object"
             /\ \/ \E i \in LoopFields(pbType) :
                      /\ GetProperties(pbType).Prop[i].Name = res.err.fieldStack[1]
                      /\ Present(doc.v, GetProperties(pbType).Prop[i])
                \/ \E n \in OneofNames(pbType) :
                      /\ OneofProp(pbType, n).Name = res.err.fieldStack[1]
                      /\ Present(doc.v, OneofProp(pbType, n))
             /\ ErrorText(res.err)
                   = "unparsable field " \o Join(res.err.fieldStack, ".")
                        \o ": " \o LeafText(res.err.nestedErr)
        ELSE \/ doc = Malformed
             \/ /\ RawKind(doc) \notin {"object", "null", "malformed"}
                /\ res.err = UnmarshalTypeError(RawKind(doc), pbType)
             \/ /\ RawKind(doc) = "object"
                /\ ~allowUnknown
                /\ res.err.k = "fieldMismatch"
                /\ Range(res.err.a) = LeftoverKeys(pbType, doc.v)

C6_Witness ==
    /\ Failed
    /\ IsFieldError(res.err)
    /\ ErrorText(res.err)
          = "unparsable field SomeEmbedded.SomeValue: invalid character 's' looking for beginning of value while looking for an integer in a string"

\* C7: two decodes of the same document, with the same setting, into
\* fresh targets of the same type yield the same status, target and error.
C7_Deterministic ==
    prev.st # "idle" =>
        /\ prev.st = res.st
        /\ prev.val = res.val
        /\ prev.err = res.err

\* C8: a decode of a JSON document returns success or an error; it never
\* aborts with a run-time panic.
C8_NoAbnormalAbort == res.st \in {"idle", "ok", "err"}

\* C9: within the root message the declared fields are decoded in schema
\* order and the first error aborts: the failing field is present and
\* undecodable, the fields before it hold what they decode to, no field
\* after it and no oneof alternative is decoded, and the unknown-field
\* error is reported only when every field present decodes.
C9_FirstErrorAborts ==
    (Failed /\ RawKind(doc) = "object") =>
        /\ IsFieldError(res.err) =>
              \A i \in LoopFields(pbType) :
                  GetProperties(pbType).Prop[i].Name = res.err.fieldStack[1] =>
                      /\ Present(doc.v, GetProperties(pbType).Prop[i])
                      /\ \E o \in Alone(allowUnknown, FieldPos(pbType, doc.v, i)) :
                            o.st = "err"
                      /\ \A j \in DeclaredFields(pbType) :
                            j < i => WrittenAsDecoded(j)
                      /\ \A j \in LoopFields(pbType) :
                            j > i =>
                              /\ res.val.v[StructFields(pbType)[j].name]
                                    = Zero(StructFields(pbType)[j].type)
                              /\ GetProperties(pbType).Prop[j].Name
                                    \notin Range(res.log)
                      /\ SlotWrites = <<>>
        /\ (~IsFieldError(res.err) \/ res.err.fieldStack[1] \in Range(SlotWrites)) =>
              \A j \in DeclaredFields(pbType) : WrittenAsDecoded(j)

C9_Witness ==
    /\ Failed
    /\ ~allowUnknown
    /\ pbType = "Embedded"
    /\ RawKind(doc) = "object"
    /\ "zz" \in DOMAIN doc.v
    /\ ErrStack(res.err) = <<"SomeValue">>
    /\ res.val.v["Identifier"] = StrV("s")

\* C10: a well-formed Timestamp literal is written as seconds and nanos
\* with seconds * 10^9 + nanos the instant and 0 <= nanos < 10^9; a
\* Duration's nanos have the sign of its seconds, or are zero.
C10_TimeRemainders ==
    (res.st = "ok" /\ pbType = "TimeMsg" /\ RawKind(doc) = "object") =>
        /\ ("when" \in DOMAIN doc.v /\ doc.v["when"] \in TimestampLiterals) =>
              LET lit     == Interior(doc.v["when"].v)
                  instant == EpochSeconds[lit[1]] * NanosPerSecond
                                + (IF Len(lit) = 3 THEN FracNanos[lit[2]] ELSE 0)
                  ts      == res.val.v["When"].v.v
              IN  /\ ts["Nanos"].v >= 0
                  /\ ts["Nanos"].v < NanosPerSecond
                  /\ ts["Seconds"].v * NanosPerSecond + ts["Nanos"].v = instant
        /\ ("took" \in DOMAIN doc.v /\ doc.v["took"] \in DurationLiterals) =>
              LET d == res.val.v["Took"].v.v
              IN  \/ d["Seconds"].v >= 0 /\ d["Nanos"].v >= 0
                  \/ d["Seconds"].v <= 0 /\ d["Nanos"].v <= 0

====
